---------------------------- MODULE Spec2Model ----------------------------
(***************************************************************************)
(* Model of src/lib/auth.js: the Auth facade (provider chain), its two     *)
(* built-in providers and the credential-extraction middlewares.           *)
(*                                                                         *)
(* JavaScript runs every handler to completion, so one action is one       *)
(* synchronous run: a facade call walks the chain until it must wait for   *)
(* an external provider's callback (or has delivered its result), and a    *)
(* provider callback resumes the walk from there.                          *)
(***************************************************************************)
EXTENDS Integers, Sequences, FiniteSets, TLC

VARIABLES
    users,      \* config.users: the static user table
    plugins,    \* self.plugins: the facade's provider list
    res,        \* the resolutions (facade calls) in flight or finished, by slot
    req,        \* the HTTP request a middleware works on
    mw,         \* the middleware run on that request
    tk          \* the token a client holds, and its decoding

vars == <<users, plugins, res, req, mw, tk>>

(***************************************************************************)
(* Bounds of the model.                                                    *)
(***************************************************************************)
MaxExt == 2     \* external providers loaded from the configuration
ConcExt == 1    \* the same, where two resolutions are in flight at once

(***************************************************************************)
(* JavaScript values.                                                      *)
(***************************************************************************)
\* an absent string: the name of an anonymous principal (name: undefined),
\* a principal's error and token before a middleware sets them
undefined == "<undefined>"

JsUndefined == [kind |-> "undefined", b |-> FALSE, items |-> <<>>]
JsBool(b)   == [kind |-> "boolean", b |-> b, items |-> <<>>]
JsArray(s)  == [kind |-> "array", b |-> FALSE, items |-> s]

\* strings whose ToNumber is 0, among the strings of this model
NumericZero(s) == s \in {"", "0"}

\* v == false (loose equality): false itself, and an array whose string
\* form converts to the number 0: [] -> "" and [s] -> s
LooseEqFalse(v) ==
    \/ v.kind = "boolean" /\ ~v.b
    \/ v.kind = "array" /\ Len(v.items) = 0
    \/ v.kind = "array" /\ Len(v.items) = 1 /\ NumericZero(v.items[1])

\* if (v): undefined and false are falsy, every array is truthy
Truthy(v) == v.kind = "array" \/ (v.kind = "boolean" /\ v.b)

\* if (s) for a string-or-undefined
TruthyName(s) == s # undefined /\ s # ""

(***************************************************************************)
(* Errors: http-errors objects carry a status class and a message.         *)
(***************************************************************************)
\* no error: cb() and cb(null, ...)
Null == [status |-> 0, message |-> ""]
HttpError(status, message) == [status |-> status, message |-> message]

\* errors an external provider may answer with
PluginErrors == {HttpError(500, "plugin failure")}

(***************************************************************************)
(* Principals.                                                             *)
(***************************************************************************)
AnonymousGroups ==
    <<"$all", "$anonymous", "@all", "@anonymous", "all", "undefined", "anonymous">>

AuthenticatedGroups ==
    <<"$all", "$authenticated", "@all", "@authenticated", "all">>

buildAnonymousUser ==
    [name |-> undefined, groups |-> AnonymousGroups, real_groups |-> JsArray(<<>>),
     error |-> undefined, token |-> undefined]

\* (a principal that also counts its own name among its groups)
authenticatedUser_own_group(name, groups) ==
    [name |-> name,
     groups |-> (IF Truthy(groups) THEN groups.items ELSE <<>>)
                \o <<name>> \o AuthenticatedGroups,
     real_groups |-> groups,
     error |-> undefined, token |-> undefined]

\* (groups || []).concat([...]); real_groups is the argument as passed
authenticatedUser(name, groups) ==
    [name |-> name,
     groups |-> (IF Truthy(groups) THEN groups.items ELSE <<>>) \o AuthenticatedGroups,
     real_groups |-> groups,
     error |-> undefined, token |-> undefined]

\* no principal: an undefined req.remote_user, a callback's absent argument
NoUser == [name |-> undefined, groups |-> <<>>, real_groups |-> JsUndefined,
           error |-> undefined, token |-> undefined]

(***************************************************************************)
(* Inputs.                                                                 *)
(***************************************************************************)
Users     == {"alice", "0"}
Passwords == {"pw", "bad"}

\* Crypto.createHash('sha1').update(password).digest('hex'), collision-free
Sha1(password) == <<"sha1", password>>

\* config.users: absent, or a table of {password: <sha1 hex>} entries
NoUsers == [present |-> FALSE, table |-> <<>>]
UserTable(f) == [present |-> TRUE, table |-> f]
UserTables ==
    {NoUsers, UserTable([u \in {"alice", "0"} |-> [password |-> Sha1("pw")]])}

HasUser(user) == users.present /\ user \in DOMAIN users.table

\* the package descriptors config.get_package_spec hands out
PackageSpecs ==
    [pub  |-> [access |-> <<"$all">>, publish |-> <<"$authenticated">>],
     priv |-> [access |-> <<"dev", "alice">>, publish |-> <<"alice">>]]
PackageNames == DOMAIN PackageSpecs
get_package_spec(package_name) == PackageSpecs[package_name]

\* principals handed to allow_access / allow_publish: the anonymous one and
\* principals authenticate can return (an external provider may affirm any
\* user name, the empty one included)
Principals ==
    {buildAnonymousUser,
     authenticatedUser("alice", JsArray(<<"alice">>)),
     authenticatedUser("", JsArray(<<"ops">>))}

(***************************************************************************)
(* Providers.                                                              *)
(***************************************************************************)
Methods == {"authenticate", "adduser", "add_user", "allow_access", "allow_publish"}

\* the plugin loader's sanity check (the callback of load_plugins)
SanityCheck(methods) ==
    "authenticate" \in methods \/ "allow_access" \in methods \/ "allow_publish" \in methods

\* the method sets external providers are drawn from
CapSets ==
    {{"authenticate"},
     {"authenticate", "adduser", "add_user"},
     {"allow_access", "allow_publish", "add_user"}}

StaticMethods  == {"authenticate", "adduser"}

\* (a deny-all provider that lacks add_user)
DenyAllWithoutAddUser == {"authenticate", "allow_access", "allow_publish"}

DenyAllMethods == {"authenticate", "add_user", "allow_access", "allow_publish"}

RECURSIVE SeqsUpTo(_, _)
SeqsUpTo(S, n) ==
    IF n = 0 THEN {<<>>}
    ELSE LET shorter == SeqsUpTo(S, n - 1)
         IN  shorter \cup {Append(s, x) : s \in {t \in shorter : Len(t) = n - 1}, x \in S}

\* what load_plugins may return: the method sets of the external providers
LoadedPlugins == SeqsUpTo({c \in CapSets : SanityCheck(c)}, MaxExt)

\* Auth(config): load_plugins' list, the static provider unshifted in front,
\* the deny-all provider pushed at the end.  A provider's id is its place.
AuthPlugins(loaded) ==
    [i \in 1..(Len(loaded) + 2) |->
        IF i = 1 THEN [id |-> i, kind |-> "static", methods |-> StaticMethods]
        ELSE IF i = Len(loaded) + 2
             THEN [id |-> i, kind |-> "denyall", methods |-> DenyAllMethods]
             ELSE [id |-> i, kind |-> "external", methods |-> loaded[i - 1]]]


(***************************************************************************)
(* A resolution: one facade call and the chain walks it makes.             *)
(*   walk       the operation the current walk asks the providers for      *)
(*   rest       the walk's own copy of the provider list (plugins.slice(0))*)
(*              less the providers already shifted off                     *)
(*   pending    the external provider invoked and not yet called back, or 0*)
(*   log        the provider invocations and their answers, in order       *)
(*   delivered  the results handed to the caller's callback, in order      *)
(*   crashed    the walk shifted a provider off an empty list (TypeError)  *)
(***************************************************************************)
NoPkg == [name |-> "", access |-> <<>>, publish |-> <<>>]

IdleRes ==
    [op |-> "idle", cont |-> "caller", user |-> "", password |-> "",
     pkg |-> NoPkg, principal |-> NoUser, walk |-> "idle", rest |-> <<>>,
     pending |-> 0, log |-> <<>>, delivered |-> <<>>, crashed |-> FALSE]

\* what a provider calls back with, and what the facade calls back with
Answer(err, val) == [err |-> err, val |-> val]
Result(err, user, ok) == [err |-> err, user |-> user, ok |-> ok]

\* the entries of a resolution's log
Invoked(walk, p, method) ==
    [ev |-> "invoke", walk |-> walk, id |-> p.id, method |-> method,
     answer |-> Answer(Null, JsUndefined)]
Answered(walk, id, a) ==
    [ev |-> "answer", walk |-> walk, id |-> id, method |-> "", answer |-> a]

\* the caller's callback is called with (err, value)
Deliver(r, result) == [r EXCEPT !.delivered = Append(@, result)]

(***************************************************************************)
(* The built-in providers.                                                 *)
(***************************************************************************)
\* the static-credential provider's authenticate
StaticAuthenticate(user, password) ==
    IF users.present /\ user \in DOMAIN users.table
       /\ Sha1(password) = users.table[user].password
    THEN Answer(Null, JsArray(<<user>>))
    ELSE Answer(Null, JsUndefined)

\* the static-credential provider's adduser
StaticAddUser(user, password) ==
    IF users.present /\ user \in DOMAIN users.table
    THEN Answer(HttpError(403, "this user already exists"), JsUndefined)
    ELSE Answer(Null, JsUndefined)

\* the deny-all provider's allow_access / allow_publish
allow_action(action, user, pkg) ==
    LET ok == \E i \in 1..Len(pkg[action]) :
                  \E j \in 1..Len(user.groups) : user.groups[j] = pkg[action][i]
    IN  IF ok THEN Answer(Null, JsBool(TRUE))
        ELSE IF TruthyName(user.name)
             THEN Answer(HttpError(403, "user " \o user.name \o " is not allowed to "
                                        \o action \o " package " \o pkg.name), JsUndefined)
             ELSE Answer(HttpError(403, "unregistered users are not allowed to "
                                        \o action \o " package " \o pkg.name), JsUndefined)

DenyAllAuthenticate(user, password) ==
    Answer(HttpError(403, "bad username/password, access denied"), JsUndefined)

DenyAllAddUser(user, password) ==
    Answer(HttpError(409, "registration is disabled"), JsUndefined)

\* what a built-in provider calls back with, synchronously
BuiltinAnswer(p, method, r) ==
    IF p.kind = "static"
    THEN IF method = "authenticate" THEN StaticAuthenticate(r.user, r.password)
         ELSE StaticAddUser(r.user, r.password)
    ELSE CASE method = "authenticate"  -> DenyAllAuthenticate(r.user, r.password)
           [] method = "add_user"      -> DenyAllAddUser(r.user, r.password)
           [] method = "allow_access"  -> allow_action("access", r.principal, r.pkg)
           [] method = "allow_publish" -> allow_action("publish", r.principal, r.pkg)

(***************************************************************************)
(* The chain walk.                                                         *)
(***************************************************************************)
\* the method a walk calls on provider p, "" when p has none: add_user
\* tries 'adduser' and then 'add_user'
MethodFor(walk, p) ==
    IF walk = "add_user"
    THEN IF "adduser" \in p.methods THEN "adduser"
         ELSE IF "add_user" \in p.methods THEN "add_user" ELSE ""
    ELSE IF walk \in p.methods THEN walk ELSE ""

\* how a walk reads a provider's answer
AuthenticateAffirms(a) == a.val.kind # "undefined" /\ ~LooseEqFalse(a.val)

Verdict(walk, a) ==
    IF a.err # Null THEN "error"
    ELSE IF walk = "authenticate"
         THEN IF AuthenticateAffirms(a) THEN "affirmative" ELSE "empty"
         ELSE IF Truthy(a.val) THEN "affirmative" ELSE "empty"

RECURSIVE next(_), callback(_, _, _)

\* (a callback that passes over a provider's error as if it were no verdict)
authenticate_cb_swallow(r, a) ==
    IF a.err = Null /\ AuthenticateAffirms(a)
    THEN Deliver(r, Result(a.err, authenticatedUser(r.user, a.val), JsUndefined))
    ELSE next(r)

\* the callback authenticate hands to a provider
authenticate_cb(r, a) ==
    IF a.err # Null THEN Deliver(r, Result(a.err, NoUser, JsUndefined))
    ELSE IF AuthenticateAffirms(a)
         THEN Deliver(r, Result(a.err, authenticatedUser(r.user, a.val), JsUndefined))
         ELSE next(r)

\* Auth.prototype.authenticate: a fresh copy of the list, then the walk
authenticate(r) == next([r EXCEPT !.walk = "authenticate", !.rest = plugins])

\* (a callback that reports the creation without logging the user in)
add_user_cb_no_login(r, a) ==
    IF a.err # Null THEN Deliver(r, Result(a.err, NoUser, JsUndefined))
    ELSE IF Truthy(a.val) THEN Deliver(r, Result(Null, NoUser, a.val))
         ELSE next(r)

\* the callback add_user hands to a provider
add_user_cb(r, a) ==
    IF a.err # Null THEN Deliver(r, Result(a.err, NoUser, JsUndefined))
    ELSE IF Truthy(a.val) THEN authenticate(r)
         ELSE next(r)

\* the callback allow_access hands to a provider
allow_access_cb(r, a) ==
    IF a.err # Null THEN Deliver(r, Result(a.err, NoUser, JsUndefined))
    ELSE IF Truthy(a.val) THEN Deliver(r, Result(Null, NoUser, a.val))
         ELSE next(r)

\* (a callback that reports the affirmative answer and walks on)
allow_publish_cb_no_return(r, a) ==
    IF a.err # Null THEN Deliver(r, Result(a.err, NoUser, JsUndefined))
    ELSE IF Truthy(a.val) THEN next(Deliver(r, Result(Null, NoUser, a.val)))
         ELSE next(r)

\* the callback allow_publish hands to a provider
allow_publish_cb(r, a) ==
    IF a.err # Null THEN Deliver(r, Result(a.err, NoUser, JsUndefined))
    ELSE IF Truthy(a.val) THEN Deliver(r, Result(Null, NoUser, a.val))
         ELSE next(r)

\* provider id calls back with answer a
callback(r, id, a) ==
    LET r1 == [r EXCEPT !.pending = 0,
                        !.log = Append(@, Answered(r.walk, id, a))]
    IN  CASE r.walk = "authenticate"  -> authenticate_cb(r1, a)
          [] r.walk = "add_user"      -> add_user_cb(r1, a)
          [] r.walk = "allow_access"  -> allow_access_cb(r1, a)
          [] r.walk = "allow_publish" -> allow_publish_cb(r1, a)

\* function next() of the four facade operations: shift the next provider
\* off the copy, pass over it when it lacks the method, else invoke it.  The
\* built-in providers call back before they return.
next(r) ==
    IF r.rest = <<>> THEN [r EXCEPT !.crashed = TRUE]
    ELSE LET p  == Head(r.rest)
             r1 == [r EXCEPT !.rest = Tail(@)]
             m  == MethodFor(r.walk, p)
         IN  IF m = "" THEN next(r1)
             ELSE LET r2 == [r1 EXCEPT !.log = Append(@, Invoked(r.walk, p, m))]
                  IN  IF p.kind = "external" THEN [r2 EXCEPT !.pending = p.id]
                      ELSE callback(r2, p.id, BuiltinAnswer(p, m, r2))

\* (a call that walks on the list the call before it is shifting)
NewRes_shared_list(op, cont, user, password, pkg, principal) ==
    [op |-> op, cont |-> cont, user |-> user, password |-> password,
     pkg |-> pkg, principal |-> principal, walk |-> op,
     rest |-> IF res[1].op # "idle" /\ res[1].rest # <<>> THEN res[1].rest ELSE plugins,
     pending |-> 0, log |-> <<>>, delivered |-> <<>>, crashed |-> FALSE]

\* a facade call: its arguments, and the walk's copy of the provider list
NewRes(op, cont, user, password, pkg, principal) ==
    [op |-> op, cont |-> cont, user |-> user, password |-> password,
     pkg |-> pkg, principal |-> principal, walk |-> op, rest |-> plugins,
     pending |-> 0, log |-> <<>>, delivered |-> <<>>, crashed |-> FALSE]

\* Object.assign({name: package_name}, config.get_package_spec(package_name))
PkgOf(package_name) ==
    [name |-> package_name,
     access |-> get_package_spec(package_name).access,
     publish |-> get_package_spec(package_name).publish]

(***************************************************************************)
(* What an external provider may call back with.                           *)
(***************************************************************************)
GroupAnswers == {JsBool(FALSE), JsArray(<<>>), JsArray(<<"0">>), JsArray(<<"dev">>)}

AuthenticateAnswers ==
    {Answer(Null, v) : v \in GroupAnswers}
    \cup {Answer(e, JsArray(<<"dev">>)) : e \in PluginErrors}

OkAnswers ==
    {Answer(Null, v) : v \in {JsUndefined, JsBool(FALSE), JsBool(TRUE)}}
    \cup {Answer(e, JsBool(TRUE)) : e \in PluginErrors}

AnswersFor(walk) == IF walk = "authenticate" THEN AuthenticateAnswers ELSE OkAnswers

(***************************************************************************)
(* Text and byte buffers are sequences of chunks (strings); the separators *)
(* " " and ":" are always chunks of their own.  A Buffer's toString() and  *)
(* a string's bytes are the same chunks.                                   *)
(***************************************************************************)
RECURSIVE Join(_)
Join(s) == IF s = <<>> THEN "" ELSE Head(s) \o Join(Tail(s))

\* s.indexOf(c): the 0-based place of the first c, -1 when there is none
IndexOf(s, c) ==
    IF \E i \in 1..Len(s) : s[i] = c
    THEN (CHOOSE i \in 1..Len(s) : s[i] = c /\ \A j \in 1..(i - 1) : s[j] # c) - 1
    ELSE -1

\* s.slice(from, to): 0-based, to excluded
Slice(s, from, to) == SubSeq(s, from + 1, to)

\* s.split(sep)
RECURSIVE Split(_, _)
Split(s, sep) ==
    LET i == IndexOf(s, sep)
    IN  IF i < 0 THEN <<s>>
        ELSE <<Slice(s, 0, i)>> \o Split(Slice(s, i + 1, Len(s)), sep)

(***************************************************************************)
(* The credential codec.                                                   *)
(***************************************************************************)
\* self.secret, and the secret of some other installation
secret == "s3cret"
OtherSecret == "0ther"

\* the length of a sha256 HMAC in bytes
MacLen == 32

\* the default expiry window, 24*60*60 seconds
DefaultExpire == 86400

\* decode_token called without an expire_time
NoExpire == -1

\* Crypto.createCipher('aes192', key): update + final
AesEncryptWith(key, buf) == <<"aes(" \o key \o "," \o Join(buf) \o ")">>
aes_encrypt(buf) == AesEncryptWith(secret, buf)

\* Crypto.createHmac('sha256', key).update(data).digest(): MacLen bytes
Hmac(key, data) ==
    [i \in 1..MacLen |-> "hmac(" \o key \o "," \o Join(data) \o ")/" \o ToString(i)]

\* Crypto.createHash('sha512').update(mac).digest('hex'), collision-free
Sha512Hex(mac) == <<"sha512", mac>>

\* the token payloads of this model: {u, g, t}
IssueTimes == {1000}
TokenPayloads ==
    [u : {"carol"}, g : {JsUndefined, JsArray(<<"dev">>)}, t : IssueTimes]

RECURSIVE JoinWith(_, _)
JoinWith(s, sep) ==
    IF s = <<>> THEN ""
    ELSE IF Len(s) = 1 THEN s[1] ELSE s[1] \o sep \o JoinWith(Tail(s), sep)

\* jju.stringify(payload, {indent: false}): undefined members are left out
Stringify(payload) ==
    "{" \o (IF payload.u = undefined THEN "" ELSE "u:'" \o payload.u \o "',")
        \o (IF payload.g.kind = "undefined" THEN ""
            ELSE "g:[" \o JoinWith(payload.g.items, ",") \o "],")
        \o "t:" \o ToString(payload.t) \o "}"

\* every payload issue_token writes in this model: u is absent for an
\* anonymous principal
Payloads ==
    [u : {undefined, "carol"}, g : {JsUndefined, JsArray(<<"dev">>)}, t : IssueTimes]

\* jju.parse(text): the payload whose text this is
Parses(text) == \E payload \in Payloads : Stringify(payload) = text
Parse(text) == CHOOSE payload \in Payloads : Stringify(payload) = text

\* the signed token of a payload, before base64: data bytes, then the MAC
SignWith(key, payload) ==
    LET data == <<Stringify(payload)>> IN data \o Hmac(key, data)

\* the texts credentials are made of
CredentialTexts ==
    {<<"alice", ":", "pw">>, <<"alice", ":", "bad">>, <<"0", ":", "pw">>,
     <<"alice", ":", "p", ":", "w">>, <<"alicepw">>}

\* the buffers clients send, base64-encoded: plain and encrypted credentials,
\* blobs encrypted under another secret, signed tokens, forged and cut ones
Carol == [u |-> "carol", g |-> JsArray(<<"dev">>), t |-> 1000]
TokenBuffers ==
    {SignWith(secret, payload) : payload \in TokenPayloads}
    \cup {SignWith(OtherSecret, Carol),
          [SignWith(secret, Carol) EXCEPT ![MacLen + 1] = "x"],
          Hmac(secret, <<Stringify(Carol)>>)}

\* what a client can make of a signed token without the secret: another
\* payload's or other bytes in place of the payload, a changed first or last
\* byte of the MAC, the MAC alone, and the payload signed with another key
Tamperings(buf) ==
    {[kind |-> "payload", bytes |-> [buf EXCEPT ![1] = text]] :
        text \in ({Stringify(payload) : payload \in Payloads} \cup {"x"}) \ {buf[1]}}
    \cup {[kind |-> "mac", bytes |-> [buf EXCEPT ![i] = "x"]] : i \in {2, MacLen + 1}}
    \cup {[kind |-> "cut", bytes |-> SubSeq(buf, 2, Len(buf))],
          [kind |-> "resigned", bytes |-> <<buf[1]>> \o Hmac(OtherSecret, <<buf[1]>>)]}

IssuedBuffers == {SignWith(secret, payload) : payload \in Payloads}

Buffers ==
    CredentialTexts
    \cup {aes_encrypt(c) : c \in CredentialTexts \cup {<<>>}}
    \cup {AesEncryptWith(OtherSecret, c) : c \in CredentialTexts}
    \cup TokenBuffers
    \cup IssuedBuffers
    \cup {t.bytes : t \in UNION {Tamperings(buf) : buf \in IssuedBuffers}}

\* buf.toString('base64') and new Buffer(text, 'base64'); text that is not
\* base64 decodes to no bytes
Base64Encode(buf) == "b64(" \o Join(buf) \o ")"
Base64Text == [buf \in Buffers |-> Base64Encode(buf)]
Base64Decode(text) ==
    IF \E buf \in Buffers : Base64Text[buf] = text
    THEN CHOOSE buf \in Buffers : Base64Text[buf] = text
    ELSE <<>>

\* (a decrypt that hands back bytes where the decipher throws)
aes_decrypt_uncaught(buf) ==
    IF \E c \in CredentialTexts \cup {<<>>} : aes_encrypt(c) = buf
    THEN CHOOSE c \in CredentialTexts \cup {<<>>} : aes_encrypt(c) = buf
    ELSE <<"x", ":", "y">>

\* Auth.prototype.aes_decrypt: the plaintext, or an empty Buffer when the
\* decipher throws
aes_decrypt(buf) ==
    IF \E c \in CredentialTexts \cup {<<>>} : aes_encrypt(c) = buf
    THEN CHOOSE c \in CredentialTexts \cup {<<>>} : aes_encrypt(c) = buf
    ELSE <<>>

\* (a payload that never carries the groups)
PayloadOf_no_groups(user, now) == [u |-> user.name, g |-> JsUndefined, t |-> now]

\* the payload issue_token builds at the second `now`:
\* g is user.real_groups && user.real_groups.length ? user.real_groups : undefined
PayloadOf(user, now) ==
    [u |-> user.name,
     g |-> IF user.real_groups.kind = "array" /\ Len(user.real_groups.items) # 0
           THEN user.real_groups ELSE JsUndefined,
     t |-> now]

\* Auth.prototype.issue_token at the second `now`
issue_token(user, now) ==
    LET data == <<Stringify(PayloadOf(user, now))>>
    IN  Base64Encode(data \o Hmac(secret, data))

Abs(n) == IF n < 0 THEN -n ELSE n

Thrown(err) == [thrown |-> TRUE, err |-> err, data |-> [u |-> undefined, g |-> JsUndefined, t |-> 0]]
Returned(data) == [thrown |-> FALSE, err |-> Null, data |-> data]

\* (a decode that looks at the timestamp before the signature)
decode_token_expiry_first(str, expire_time, now) ==
    LET buf == Base64Decode(str)
    IN  IF Len(buf) <= MacLen THEN Thrown(HttpError(401, "invalid token"))
        ELSE LET data      == Slice(buf, 0, Len(buf) - MacLen)
                 their_mac == Slice(buf, Len(buf) - MacLen, Len(buf))
                 good_mac  == Hmac(secret, data)
                 expire    == IF expire_time = NoExpire \/ expire_time = 0
                              THEN DefaultExpire ELSE expire_time
             IN  IF Parses(Join(data)) /\ Abs(Parse(Join(data)).t - now) > expire
                 THEN Thrown(HttpError(401, "token expired"))
                 ELSE IF Sha512Hex(their_mac) # Sha512Hex(good_mac)
                      THEN Thrown(HttpError(401, "bad signature"))
                      ELSE IF ~Parses(Join(data))
                           THEN Thrown(HttpError(0, "SyntaxError"))
                           ELSE Returned(Parse(Join(data)))

\* Auth.prototype.decode_token at the second `now`
decode_token(str, expire_time, now) ==
    LET buf == Base64Decode(str)
    IN  IF Len(buf) <= MacLen THEN Thrown(HttpError(401, "invalid token"))
        ELSE LET data      == Slice(buf, 0, Len(buf) - MacLen)
                 their_mac == Slice(buf, Len(buf) - MacLen, Len(buf))
                 good_mac  == Hmac(secret, data)
                 expire    == IF expire_time = NoExpire \/ expire_time = 0
                              THEN DefaultExpire ELSE expire_time
             IN  IF Sha512Hex(their_mac) # Sha512Hex(good_mac)
                 THEN Thrown(HttpError(401, "bad signature"))
                 ELSE IF ~Parses(Join(data))
                      THEN Thrown(HttpError(0, "SyntaxError"))
                      ELSE IF Abs(Parse(Join(data)).t - now) > expire
                           THEN Thrown(HttpError(401, "token expired"))
                           ELSE Returned(Parse(Join(data)))

(***************************************************************************)
(* A token in a client's hands.                                            *)
(*   tk.principal    the principal issue_token was called for              *)
(*   tk.issued       the second it was issued at                           *)
(*   tk.bytes        the bytes behind the token string the client now holds*)
(*   tk.token        the token string (base64)                             *)
(*   tk.tampered     what the client did to it ("no": nothing)             *)
(*   tk.expire_time, tk.now, tk.result   the decode_token call made on it  *)
(***************************************************************************)
NoPayload == [u |-> undefined, g |-> JsUndefined, t |-> 0]
NoTk ==
    [principal |-> NoUser, issued |-> 0, bytes |-> <<>>, token |-> "",
     tampered |-> "no", decoded |-> FALSE, expire_time |-> NoExpire, now |-> 0,
     result |-> [thrown |-> FALSE, err |-> Null, data |-> NoPayload]]

\* the principals tokens are issued for: anonymous (real_groups []), carol
\* with a group, carol without any, and carol as the Bearer middleware
\* builds her from a token without g
TokenPrincipals ==
    {buildAnonymousUser,
     authenticatedUser("carol", JsArray(<<"dev">>)),
     authenticatedUser("carol", JsArray(<<>>)),
     authenticatedUser("carol", JsUndefined)}

\* the expire_time arguments of decode_token, and the seconds it is called at
ExpireTimes == {NoExpire, 0, 1, 60}
DecodeTimes ==
    {939, 940, 999, 1000, 1001, 1002, 1060, 1061,
     999 + DefaultExpire, 1000 + DefaultExpire, 1001 + DefaultExpire}

(***************************************************************************)
(* The request and the middleware working on it.                           *)
(*   req.remote_user  the principal attached to the request (NoUser: none) *)
(*   req.paused       req.pause() was called and req.resume() not yet      *)
(*   mw.trace         what the running (or last) middleware did, in order  *)
(*   mw.next_err      the error the next stage was called with (Null: none)*)
(*   mw.now           the second Date.now() reads during the run           *)
(*   mw.before        req.remote_user when the middleware was entered      *)
(***************************************************************************)
Absent == [present |-> FALSE, value |-> <<>>]
Header(value) == [present |-> TRUE, value |-> value]
NoCookie == [present |-> FALSE, value |-> ""]
Cookie(value) == [present |-> TRUE, value |-> value]

NoAuth == [call |-> FALSE, user |-> "", password |-> ""]
IdleMw ==
    [name |-> "idle", running |-> FALSE, trace |-> <<>>, next_err |-> Null,
     now |-> 0, before |-> NoUser]
NoReq ==
    [remote_user |-> NoUser, authorization |-> Absent, token |-> NoCookie, paused |-> FALSE]

\* (a middleware that never takes the principal for named)
NamedNever(r) == FALSE

\* req.remote_user != null && req.remote_user.name !== undefined
Named(r) == r.remote_user # NoUser /\ r.remote_user.name # undefined

\* a middleware is entered: req.pause()
Enter(name, now) ==
    [req  |-> [req EXCEPT !.paused = TRUE],
     mw   |-> [name |-> name, running |-> TRUE, trace |-> <<"pause">>,
               next_err |-> Null, now |-> now, before |-> req.remote_user],
     auth |-> NoAuth]

Resume(w) == [w EXCEPT !.req.paused = FALSE, !.mw.trace = Append(@, "resume")]

\* the next stage _next is called, with err or (Null) without arguments
CallNext(w, err) ==
    [w EXCEPT !.mw.trace = Append(@, "_next"), !.mw.next_err = err,
              !.mw.running = FALSE]

\* (the variant the source keeps in a comment: the error goes to the next stage)
basic_next_propagate(w, err) == CallNext(Resume(w), err)

\* function next(err) of basic_middleware
basic_next(w, err) ==
    LET w1 == Resume(w)
        w2 == IF err # Null THEN [w1 EXCEPT !.req.remote_user.error = err.message]
              ELSE w1
    IN  CallNext(w2, Null)

\* (a next that swallows the error as the Cookie middleware's does)
bearer_next_swallow(w, err) == CallNext(Resume(w), Null)

\* function next(_err) of bearer_middleware: _next.apply(null, arguments)
bearer_next(w, err) == CallNext(Resume(w), err)

\* (a next that forgets req.resume())
cookie_next_no_resume(w, err) == CallNext(w, Null)

\* function next(_err) of cookie_middleware
cookie_next(w, err) == CallNext(Resume(w), Null)

mw_next(w, err) ==
    CASE w.mw.name = "basic"  -> basic_next(w, err)
      [] w.mw.name = "bearer" -> bearer_next(w, err)
      [] w.mw.name = "cookie" -> cookie_next(w, err)

\* credentials.indexOf(':'), the two slices, and the call of self.authenticate
Credentials(w, credentials) ==
    LET index == IndexOf(credentials, ":")
    IN  IF index < 0 THEN mw_next(w, Null)
        ELSE [w EXCEPT !.mw.trace = Append(@, "authenticate"),
                       !.auth = [call |-> TRUE,
                                 user |-> Join(Slice(credentials, 0, index)),
                                 password |-> Join(Slice(credentials, index + 1,
                                                         Len(credentials)))]]

\* the callback the Basic and Cookie middlewares hand to self.authenticate
authenticate_done(w, result) ==
    LET w1 == [w EXCEPT !.mw.trace = Append(@, "cb")]
    IN  IF result.err = Null
        THEN mw_next([w1 EXCEPT !.req.remote_user = result.user], Null)
        ELSE mw_next([w1 EXCEPT !.req.remote_user = buildAnonymousUser], result.err)

\* the handler basic_middleware returns, up to its call of self.authenticate
basic_middleware(w) ==
    IF Named(w.req) THEN basic_next(w, Null)
    ELSE LET w1 == [w EXCEPT !.req.remote_user = buildAnonymousUser]
             authorization == w.req.authorization
             parts == Split(authorization.value, " ")
         IN  IF ~authorization.present THEN basic_next(w1, Null)
             ELSE IF Len(parts) # 2
                  THEN basic_next(w1, HttpError(400, "bad authorization header"))
                  ELSE IF parts[1] = <<"Basic">>
                       THEN Credentials(w1, Base64Decode(Join(parts[2])))
                       ELSE IF parts[1] = <<"Bearer">>
                            THEN LET credentials ==
                                         aes_decrypt(Base64Decode(Join(parts[2])))
                                 IN  IF credentials = <<>> THEN basic_next(w1, Null)
                                     ELSE Credentials(w1, credentials)
                            ELSE basic_next(w1, Null)

\* the handler bearer_middleware returns
bearer_middleware(w) ==
    IF Named(w.req) THEN bearer_next(w, Null)
    ELSE LET w1 == [w EXCEPT !.req.remote_user = buildAnonymousUser]
             authorization == w.req.authorization
             parts == Split(authorization.value, " ")
             token == Join(parts[2])
             user  == decode_token(token, NoExpire, w.mw.now)
         IN  IF ~authorization.present THEN bearer_next(w1, Null)
             ELSE IF Len(parts) # 2
                  THEN bearer_next(w1, HttpError(400, "bad authorization header"))
                  ELSE IF parts[1] # <<"Bearer">> THEN bearer_next(w1, Null)
                       ELSE IF user.thrown THEN bearer_next(w1, user.err)
                            ELSE bearer_next(
                                     [w1 EXCEPT !.req.remote_user =
                                         [authenticatedUser(user.data.u, user.data.g)
                                              EXCEPT !.token = token]],
                                     Null)

\* the handler cookie_middleware returns, up to its call of self.authenticate
cookie_middleware(w) ==
    IF Named(w.req) THEN cookie_next(w, Null)
    ELSE LET w1 == [w EXCEPT !.req.remote_user = buildAnonymousUser]
             token == w.req.token
             credentials == aes_decrypt(Base64Decode(token.value))
         IN  IF ~token.present THEN cookie_next(w1, Null)
             ELSE IF credentials = <<>> THEN cookie_next(w1, Null)
                  ELSE Credentials(w1, credentials)

\* the requests of this model
B64(buf) == Base64Encode(buf)
AuthorizationHeaders ==
    {Absent,
     Header(<<"Basic">>),
     Header(<<"Basic", " ", B64(<<"alice", ":", "pw">>), " ", "x">>),
     Header(<<"Basic", " ", B64(<<"alice", ":", "pw">>)>>),
     Header(<<"Basic", " ", B64(<<"alice", ":", "bad">>)>>),
     Header(<<"Basic", " ", B64(<<"0", ":", "pw">>)>>),
     Header(<<"Basic", " ", B64(<<"alice", ":", "p", ":", "w">>)>>),
     Header(<<"Basic", " ", B64(<<"alicepw">>)>>),
     Header(<<"Digest", " ", B64(<<"alice", ":", "pw">>)>>),
     Header(<<"Bearer", " ", B64(aes_encrypt(<<"alice", ":", "pw">>))>>),
     Header(<<"Bearer", " ", B64(aes_encrypt(<<"alicepw">>))>>),
     Header(<<"Bearer", " ", B64(AesEncryptWith(OtherSecret, <<"alice", ":", "pw">>))>>)}
    \cup {Header(<<"Bearer", " ", B64(buf)>>) : buf \in TokenBuffers}

TokenCookies ==
    {NoCookie,
     Cookie(B64(aes_encrypt(<<"alice", ":", "pw">>))),
     Cookie(B64(aes_encrypt(<<"alicepw">>))),
     Cookie(B64(AesEncryptWith(OtherSecret, <<"alice", ":", "pw">>)))}

Requests ==
    {[remote_user |-> NoUser, authorization |-> h, token |-> c, paused |-> FALSE] :
        h \in AuthorizationHeaders, c \in TokenCookies}

\* what Date.now()/1000 may read when a middleware runs
ClockReadings == {1010, 1000 + DefaultExpire, 1001 + DefaultExpire}

(***************************************************************************)
(* Actions of the facade.                                                  *)
(***************************************************************************)
\* the slots of this run: one per resolution that may be in flight at once
Slots == DOMAIN res

\* a slot no resolution is held in; a new call takes the lowest one
Free(s) == res[s] = IdleRes
FreeSlot(s) == Free(s) /\ \A t \in Slots : Free(t) => s <= t

\* the caller is done with the result it was called back with
Forget ==
    \E s \in Slots :
        /\ res[s].op # "idle"
        /\ res[s].pending = 0
        /\ ~mw.running
        /\ res' = [res EXCEPT ![s] = IdleRes]
        /\ UNCHANGED <<users, plugins, req, mw, tk>>

\* Auth.prototype.authenticate(user, password, cb)
Authenticate ==
    \E s \in Slots, user \in Users, password \in Passwords :
        /\ FreeSlot(s)
        /\ res' = [res EXCEPT ![s] =
                      authenticate(NewRes("authenticate", "caller", user, password,
                                          NoPkg, NoUser))]
        /\ UNCHANGED <<users, plugins, req, mw, tk>>

\* Auth.prototype.add_user(user, password, cb)
AddUser ==
    \E s \in Slots, user \in Users, password \in Passwords :
        /\ FreeSlot(s)
        /\ res' = [res EXCEPT ![s] =
                      next(NewRes("add_user", "caller", user, password, NoPkg, NoUser))]
        /\ UNCHANGED <<users, plugins, req, mw, tk>>

\* Auth.prototype.allow_access(package_name, user, callback)
AllowAccess ==
    \E s \in Slots, package_name \in PackageNames, user \in Principals :
        /\ FreeSlot(s)
        /\ res' = [res EXCEPT ![s] =
                      next(NewRes("allow_access", "caller", "", "",
                                  PkgOf(package_name), user))]
        /\ UNCHANGED <<users, plugins, req, mw, tk>>

\* Auth.prototype.allow_publish(package_name, user, callback)
AllowPublish ==
    \E s \in Slots, package_name \in PackageNames, user \in Principals :
        /\ FreeSlot(s)
        /\ res' = [res EXCEPT ![s] =
                      next(NewRes("allow_publish", "caller", "", "",
                                  PkgOf(package_name), user))]
        /\ UNCHANGED <<users, plugins, req, mw, tk>>

\* the result of the resolution a middleware started reaches its callback
Continue(w, r) ==
    IF r.delivered # <<>> THEN authenticate_done(w, r.delivered[Len(r.delivered)])
    ELSE w

\* an external provider calls back; the walk goes on, and a middleware's
\* resolution that ends here calls the middleware's callback
ProviderCallback ==
    \E s \in Slots :
        /\ res[s].pending # 0
        /\ \E a \in AnswersFor(res[s].walk) :
               LET r == callback(res[s], res[s].pending, a)
                   w == [req |-> req, mw |-> mw, auth |-> NoAuth]
                   w1 == IF r.cont = "caller" THEN w ELSE Continue(w, r)
               IN  /\ res' = [res EXCEPT ![s] = r]
                   /\ req' = w1.req
                   /\ mw' = w1.mw
        /\ UNCHANGED <<users, plugins, tk>>

(***************************************************************************)
(* Actions of the middlewares: the handler runs up to its call of          *)
(* self.authenticate, the walk runs as far as it can, and a walk that ends *)
(* at once calls the handler's callback in the same run.                   *)
(***************************************************************************)
RunMiddleware(s, w) ==
    LET r  == authenticate(NewRes("authenticate", w.mw.name, w.auth.user,
                                  w.auth.password, NoPkg, NoUser))
        w1 == IF w.auth.call THEN Continue(w, r) ELSE w
    IN  /\ res' = IF w.auth.call THEN [res EXCEPT ![s] = r] ELSE res
        /\ req' = w1.req
        /\ mw' = w1.mw
        /\ UNCHANGED <<users, plugins, tk>>

BasicMiddleware ==
    /\ ~mw.running
    /\ \E s \in Slots : FreeSlot(s) /\ RunMiddleware(s, basic_middleware(Enter("basic", 0)))

BearerMiddleware ==
    /\ ~mw.running
    /\ \E s \in Slots, now \in ClockReadings :
           FreeSlot(s) /\ RunMiddleware(s, bearer_middleware(Enter("bearer", now)))

CookieMiddleware ==
    /\ ~mw.running
    /\ \E s \in Slots : FreeSlot(s) /\ RunMiddleware(s, cookie_middleware(Enter("cookie", 0)))

Init ==
    /\ users \in UserTables
    /\ plugins \in {AuthPlugins(loaded) : loaded \in LoadedPlugins}
    /\ res = <<IdleRes>>
    /\ req = NoReq
    /\ mw = IdleMw
    /\ tk = NoTk

Next ==
    \/ Authenticate
    \/ AddUser
    \/ AllowAccess
    \/ AllowPublish
    \/ ProviderCallback
    \/ Forget

Spec == Init /\ [][Next]_vars

(***************************************************************************)
(* The middlewares at work on one request, in any order and number.  The   *)
(* walks they start pass over a provider without authenticate, so the      *)
(* external providers here all have it.                                    *)
(***************************************************************************)
MwCapSets == {{"authenticate"}}

MwInit ==
    /\ users \in UserTables
    /\ plugins \in {AuthPlugins(loaded) : loaded \in SeqsUpTo(MwCapSets, MaxExt)}
    /\ res = <<IdleRes>>
    /\ req \in Requests
    /\ mw = IdleMw
    /\ tk = NoTk

MwNext ==
    \/ BasicMiddleware
    \/ BearerMiddleware
    \/ CookieMiddleware
    \/ ProviderCallback
    \/ Forget

MwSpec == MwInit /\ [][MwNext]_vars

(***************************************************************************)
(* The token codec at work: a token is issued, the client may change it,   *)
(* and it is decoded.                                                      *)
(***************************************************************************)
\* Auth.prototype.issue_token(user)
IssueToken ==
    /\ tk = NoTk
    /\ \E user \in TokenPrincipals, now \in IssueTimes :
           tk' = [NoTk EXCEPT !.principal = user, !.issued = now,
                              !.bytes = SignWith(secret, PayloadOf(user, now)),
                              !.token = issue_token(user, now)]
    /\ UNCHANGED <<users, plugins, res, req, mw>>

\* the client changes the token it was given
TamperToken ==
    /\ tk.token # "" /\ tk.tampered = "no" /\ ~tk.decoded
    /\ \E t \in Tamperings(tk.bytes) :
           tk' = [tk EXCEPT !.bytes = t.bytes, !.token = Base64Encode(t.bytes),
                            !.tampered = t.kind]
    /\ UNCHANGED <<users, plugins, res, req, mw>>

\* Auth.prototype.decode_token(str, expire_time)
DecodeToken ==
    /\ tk.token # "" /\ ~tk.decoded
    /\ \E expire_time \in ExpireTimes, now \in DecodeTimes :
           tk' = [tk EXCEPT !.decoded = TRUE, !.expire_time = expire_time,
                            !.now = now,
                            !.result = decode_token(tk.token, expire_time, now)]
    /\ UNCHANGED <<users, plugins, res, req, mw>>

TokenInit ==
    /\ users = NoUsers
    /\ plugins = AuthPlugins(<<>>)
    /\ res = <<IdleRes>>
    /\ req = NoReq
    /\ mw = IdleMw
    /\ tk = NoTk

TokenNext ==
    \/ IssueToken
    \/ TamperToken
    \/ DecodeToken

TokenSpec == TokenInit /\ [][TokenNext]_vars

(***************************************************************************)
(* Two resolutions in flight at once: the facade's operations with a       *)
(* second slot, and external providers that have every operation.          *)
(***************************************************************************)
ConcCapSets == {{"authenticate", "add_user", "allow_access", "allow_publish"}}

ConcInit ==
    /\ users = UserTable([u \in {"alice", "0"} |-> [password |-> Sha1("pw")]])
    /\ plugins \in {AuthPlugins(loaded) : loaded \in SeqsUpTo(ConcCapSets, ConcExt)}
    /\ res = <<IdleRes, IdleRes>>
    /\ req = NoReq
    /\ mw = IdleMw
    /\ tk = NoTk

ConcSpec == ConcInit /\ [][Next]_vars

\* every external provider that was invoked eventually calls back
FairSpec == Spec /\ WF_vars(ProviderCallback)

(***************************************************************************)
(* Reading a resolution's log.                                             *)
(***************************************************************************)
Walks == {"authenticate", "add_user", "allow_access", "allow_publish"}

\* the log entries of walk W, and its answers, in order
WalkLog(r, W) == SelectSeq(r.log, LAMBDA e : e.walk = W)
Answers(r, W) == SelectSeq(r.log, LAMBDA e : e.walk = W /\ e.ev = "answer")

Empty(W, e) == Verdict(W, e.answer) = "empty"

\* some provider gave walk W a verdict; the first such answer
Decided(r, W) == \E i \in 1..Len(Answers(r, W)) : ~Empty(W, Answers(r, W)[i])
FirstVerdict(r, W) ==
    LET A == Answers(r, W)
    IN  A[CHOOSE i \in 1..Len(A) : ~Empty(W, A[i]) /\ \A j \in 1..(i - 1) : Empty(W, A[j])]

\* every provider before place id that has walk W's method answered it empty
EarlierAllEmpty(r, W, id) ==
    \A j \in 1..(id - 1) :
        MethodFor(W, plugins[j]) # "" =>
            \E k \in 1..Len(Answers(r, W)) :
                Answers(r, W)[k].id = j /\ Empty(W, Answers(r, W)[k])

\* the call has delivered a result to its caller
Finished(r) == r.op # "idle" /\ r.delivered # <<>>
TheResult(r) == r.delivered[1]

\* the result is the verdict of walk W: its first non-empty answer, given by
\* the first provider in list order that did not answer empty
DeliversVerdictOf(r, W) ==
    /\ Decided(r, W)
    /\ EarlierAllEmpty(r, W, FirstVerdict(r, W).id)
    /\ LET a == FirstVerdict(r, W).answer
       IN  IF a.err # Null THEN TheResult(r) = Result(a.err, NoUser, JsUndefined)
           ELSE TheResult(r).err = Null

C3_ExactlyOneResult ==
    /\ [](\A s \in Slots :
              /\ ~res[s].crashed
              /\ Len(res[s].delivered) <= 1
              /\ res[s].op # "idle" /\ res[s].pending = 0 => Len(res[s].delivered) = 1)
    /\ (res[1].pending # 0) ~> (res[1].pending = 0 /\ Len(res[1].delivered) = 1)

\* an add_user call delivered after both external providers were consulted
C3_Witness ==
    /\ Len(plugins) = MaxExt + 2
    /\ res[1].op = "add_user"
    /\ Len(res[1].delivered) = 1
    /\ \E i \in 1..Len(res[1].log) : res[1].log[i].id = 2 /\ res[1].log[i].ev = "answer"
    /\ \E i \in 1..Len(res[1].log) : res[1].log[i].id = 3 /\ res[1].log[i].ev = "answer"

(***************************************************************************)
(* C4: when no external provider gives allow_access (allow_publish) an     *)
(* affirmative or error verdict, the call succeeds iff a group of the      *)
(* package's access (publish) list is one of the principal's groups, and   *)
(* otherwise fails with 403, the message naming the principal when it has  *)
(* a name and saying 'unregistered users' when it is anonymous.            *)
(***************************************************************************)
Range(seq) == {seq[i] : i \in 1..Len(seq)}

NoExternalVerdict(r, W) ==
    \A i \in 1..Len(Answers(r, W)) :
        plugins[Answers(r, W)[i].id].kind = "external" => Empty(W, Answers(r, W)[i])

C4_AclDecides ==
    \A s \in Slots :
        LET r      == res[s]
            action == IF r.op = "allow_access" THEN "access" ELSE "publish"
            member == Range(r.pkg[action]) \cap Range(r.principal.groups) # {}
        IN  Finished(r) /\ r.op \in {"allow_access", "allow_publish"}
            /\ NoExternalVerdict(r, r.op) =>
                IF member THEN TheResult(r).err = Null
                ELSE TheResult(r).err =
                         HttpError(403,
                             (IF r.principal.name # undefined
                              THEN "user " \o r.principal.name \o " is"
                              ELSE "unregistered users are")
                             \o " not allowed to " \o action \o " package " \o r.pkg.name)

(***************************************************************************)
(* C5: authenticate consults the static-credential provider first; when    *)
(* the user table has an entry for the user whose password is the digest   *)
(* of the password given, the call yields a principal with real_groups     *)
(* [user] and groups holding user, $all and $authenticated, whatever the   *)
(* external providers would answer; when there is no such entry the static *)
(* provider gives no verdict and, no other provider affirming, the call    *)
(* fails with 403 'bad username/password, access denied'.                  *)
(***************************************************************************)
Matches(user, password) ==
    HasUser(user) /\ users.table[user].password = Sha1(password)

C5_StaticTableFirst ==
    \A s \in Slots :
        LET r == res[s]
            A == Answers(r, "authenticate")
        IN  Finished(r) /\ r.op = "authenticate" =>
                /\ r.log[1].ev = "invoke" /\ r.log[1].id = 1
                /\ plugins[1].kind = "static"
                /\ IF Matches(r.user, r.password)
                   THEN /\ Len(A) = 1
                        /\ TheResult(r).err = Null
                        /\ TheResult(r).user.name = r.user
                        /\ TheResult(r).user.real_groups = JsArray(<<r.user>>)
                        /\ {r.user, "$all", "$authenticated"}
                               \subseteq Range(TheResult(r).user.groups)
                   ELSE /\ Empty("authenticate", A[1])
                        /\ (\A i \in 2..Len(A) :
                                Verdict("authenticate", A[i].answer) # "affirmative")
                           => TheResult(r).err =
                                  HttpError(403, "bad username/password, access denied")

(***************************************************************************)
(* C6: add_user for a user name already in the static user table fails     *)
(* with a 409 Conflict error ('user already exists') before any external   *)
(* provider is consulted.                                                  *)
(***************************************************************************)
C6_DuplicateIsConflict ==
    \A s \in Slots :
        LET r == res[s]
        IN  Finished(r) /\ r.op = "add_user" /\ HasUser(r.user) =>
                /\ TheResult(r).err.status = 409
                /\ TheResult(r).err.message
                       \in {"user already exists", "this user already exists"}
                /\ \A i \in 1..Len(r.log) : plugins[r.log[i].id].kind # "external"

(***************************************************************************)
(* C7.  Once a provider affirms creation, add_user invokes no further      *)
(* adduser/add_user, runs authenticate on the whole chain from its first   *)
(* provider and delivers exactly that walk's outcome, so a successful      *)
(* add_user returns an authenticated principal named user.                 *)
(***************************************************************************)
Affirmed(r) ==
    \E i \in 1..Len(Answers(r, "add_user")) :
        Verdict("add_user", Answers(r, "add_user")[i].answer) = "affirmative"

Refused(r) ==
    \E i \in 1..Len(Answers(r, "add_user")) :
        Verdict("add_user", Answers(r, "add_user")[i].answer) = "error"

LogsInAfterCreation(r) ==
    /\ Affirmed(r) =>
           LET L == WalkLog(r, "add_user")
               A == WalkLog(r, "authenticate")
           IN  /\ Verdict("add_user", L[Len(L)].answer) = "affirmative"
               /\ L[Len(L)].ev = "answer"
               /\ A # <<>> /\ A[1].ev = "invoke" /\ A[1].id = 1
    /\ Finished(r) /\ Affirmed(r) =>
           /\ DeliversVerdictOf(r, "authenticate")
           /\ TheResult(r).err = Null =>
                  TheResult(r).user =
                      authenticatedUser(r.user, FirstVerdict(r, "authenticate").answer.val)
    /\ Finished(r) /\ TheResult(r).err = Null =>
           /\ TheResult(r).user.name = r.user
           /\ "$authenticated" \in Range(TheResult(r).user.groups)

MwFairSpec == MwSpec /\ WF_vars(ProviderCallback)

(***************************************************************************)
(* Reading a middleware run.                                               *)
(***************************************************************************)
Count(seq, x) == Cardinality({i \in 1..Len(seq) : seq[i] = x})

\* the middleware has called the next stage
Passed(name) == mw.name = name /\ ~mw.running

\* the request carried a named principal when the middleware was entered
NamedBefore == mw.before # NoUser /\ mw.before.name # undefined

\* the middleware's call of self.authenticate has called back, and the
\* result it called back with
Authenticated == "cb" \in Range(mw.trace) /\ \E s \in Slots : res[s].cont = mw.name
AuthResult == TheResult(res[CHOOSE s \in Slots : res[s].cont = mw.name])

(***************************************************************************)
(* C8: each middleware pauses the request before any credential resolution *)
(* starts, resumes it exactly once, and calls the next stage exactly once  *)
(* and only after the resume, on every path; no run ends paused or without *)
(* the next stage called, provided the providers call back.                *)
(***************************************************************************)
PauseResumeNext ==
    /\ mw.name # "idle" => mw.trace[1] = "pause" /\ Count(mw.trace, "pause") = 1
    /\ mw.running =>
           /\ req.paused
           /\ mw.trace = <<"pause", "authenticate">>
           /\ \E s \in Slots : res[s].cont = mw.name /\ res[s].pending # 0
    /\ mw.name # "idle" /\ ~mw.running =>
           /\ ~req.paused
           /\ mw.trace \in {<<"pause", "resume", "_next">>,
                            <<"pause", "authenticate", "cb", "resume", "_next">>}
    /\ \A s \in Slots :
           res[s].cont # "caller" /\ res[s].log # <<>> /\ res[s].delivered = <<>> =>
               req.paused /\ mw.running /\ mw.name = res[s].cont

C8_PausedResumedOnceThenNext ==
    /\ []PauseResumeNext
    /\ mw.running ~> ~mw.running

\* the Cookie middleware passed the request on after an external provider
\* answered its authenticate call
C8_Witness ==
    /\ Passed("cookie")
    /\ mw.trace = <<"pause", "authenticate", "cb", "resume", "_next">>
    /\ \E s \in Slots :
           /\ res[s].cont = "cookie"
           /\ \E i \in 1..Len(res[s].log) : plugins[res[s].log[i].id].kind = "external"

(***************************************************************************)
(* C9: the Basic middleware always calls the next stage without an error.  *)
(* After a malformed header (not exactly two space-separated tokens) or a  *)
(* failed authenticate the request carries an anonymous principal whose    *)
(* error is the error's message; after a successful authenticate it        *)
(* carries the principal authenticate resolved.                            *)
(***************************************************************************)
C9_BasicSwallowsAndRecords ==
    Passed("basic") =>
        /\ mw.next_err = Null
        /\ ~NamedBefore /\ req.authorization.present
           /\ Len(Split(req.authorization.value, " ")) # 2 =>
               req.remote_user =
                   [buildAnonymousUser EXCEPT !.error = "bad authorization header"]
        /\ Authenticated =>
               IF AuthResult.err # Null
               THEN req.remote_user =
                        [buildAnonymousUser EXCEPT !.error = AuthResult.err.message]
               ELSE /\ req.remote_user = AuthResult.user
                    /\ req.remote_user.name # undefined

\* Basic credentials no provider accepted: the request goes on as anonymous
\* with the deny-all provider's message
C9_Witness ==
    /\ Passed("basic")
    /\ Authenticated
    /\ mw.next_err = Null
    /\ req.remote_user =
           [buildAnonymousUser EXCEPT !.error = "bad username/password, access denied"]

(***************************************************************************)
(* C10: when the 'token' cookie decrypts to 'user:pass' and authenticate   *)
(* fails, the Cookie middleware calls the next stage without an error and  *)
(* the request carries an anonymous principal whose error is the           *)
(* authentication error's message, as with the Basic middleware.           *)
(***************************************************************************)
C10_CookieSwallowsAndRecords ==
    Passed("cookie") /\ Authenticated /\ AuthResult.err # Null =>
        /\ mw.next_err = Null
        /\ req.remote_user =
               [buildAnonymousUser EXCEPT !.error = AuthResult.err.message]

(***************************************************************************)
(* Reading the Authorization header of the request the Bearer middleware   *)
(* worked on.                                                              *)
(***************************************************************************)
HeaderParts == Split(req.authorization.value, " ")

\* the header does not split into exactly two tokens
MalformedHeader ==
    ~NamedBefore /\ req.authorization.present /\ Len(HeaderParts) # 2

\* the header is 'Bearer <token>', and the token's text
BearerHeader ==
    /\ ~NamedBefore /\ req.authorization.present
    /\ Len(HeaderParts) = 2 /\ HeaderParts[1] = <<"Bearer">>
BearerToken == Join(HeaderParts[2])

\* text is a token signed under the facade's secret for payload, read at
\* second now within the default window of its issue
SignedFor(text, payload) == text = Base64Encode(SignWith(secret, payload))
ValidAt(text, now) ==
    \E payload \in TokenPayloads :
        SignedFor(text, payload) /\ Abs(payload.t - now) <= DefaultExpire

NoResolution == \A s \in Slots : res[s] = IdleRes

(***************************************************************************)
(* C11: the Bearer middleware calls the next stage with an error exactly   *)
(* when the header is malformed (400) or the token fails to decode (401    *)
(* invalid token, bad signature or token expired), and then the request    *)
(* carries the anonymous principal; on every other path the next stage is  *)
(* called without an error.                                                *)
(***************************************************************************)
C11_BearerPassesDecodeErrorsOn ==
    Passed("bearer") =>
        IF MalformedHeader
        THEN /\ mw.next_err = HttpError(400, "bad authorization header")
             /\ req.remote_user = buildAnonymousUser
        ELSE IF BearerHeader /\ ~ValidAt(BearerToken, mw.now)
             THEN /\ mw.next_err \in {HttpError(401, "invalid token"),
                                      HttpError(401, "bad signature"),
                                      HttpError(401, "token expired")}
                  /\ req.remote_user = buildAnonymousUser
             ELSE mw.next_err = Null

\* an expired token: the next stage got the 401 and the principal is anonymous
C11_Witness ==
    /\ Passed("bearer")
    /\ BearerHeader
    /\ mw.next_err = HttpError(401, "token expired")
    /\ req.remote_user = buildAnonymousUser

(***************************************************************************)
(* C12: given a Bearer header whose signed token decodes to payload {u, g},*)
(* the Bearer middleware attaches the principal with name u, real_groups g *)
(* and groups g followed by $all, $authenticated, @all, @authenticated,    *)
(* all, with the raw token string attached, and invokes no provider.       *)
(***************************************************************************)
C12_BearerBuildsPrincipalFromToken ==
    Passed("bearer") /\ BearerHeader /\ ValidAt(BearerToken, mw.now) =>
        /\ \E payload \in TokenPayloads :
               /\ SignedFor(BearerToken, payload)
               /\ req.remote_user.name = payload.u
               /\ req.remote_user.real_groups = payload.g
               /\ req.remote_user.groups =
                      (IF payload.g.kind = "array" THEN payload.g.items ELSE <<>>)
                      \o <<"$all", "$authenticated", "@all", "@authenticated", "all">>
        /\ req.remote_user.token = BearerToken
        /\ mw.trace = <<"pause", "resume", "_next">>
        /\ NoResolution

\* carol's token with groups [dev], read ten seconds after its issue
C12_Witness ==
    /\ Passed("bearer")
    /\ mw.now = 1010
    /\ req.remote_user.name = "carol"
    /\ req.remote_user.groups =
           <<"dev", "$all", "$authenticated", "@all", "@authenticated", "all">>
    /\ req.remote_user.token = Base64Encode(SignWith(secret, Carol))

(***************************************************************************)
(* C13: a middleware entered with a named principal on the request goes on *)
(* at once: the principal is unchanged, no header or cookie is read, no    *)
(* provider is invoked and no error is passed on; so no step of any        *)
(* sequence of middlewares changes a named principal once it is attached.  *)
(***************************************************************************)
C13_NamedPrincipalKept ==
    /\ [](mw.name # "idle" /\ ~mw.running /\ NamedBefore =>
              /\ req.remote_user = mw.before
              /\ mw.trace = <<"pause", "resume", "_next">>
              /\ mw.next_err = Null
              /\ NoResolution)
    /\ [][Named(req) => req'.remote_user = req.remote_user]_vars

\* the Cookie middleware went over a request that carries a cookie and the
\* principal the Bearer middleware built from a token
C13_Witness ==
    /\ Passed("cookie")
    /\ NamedBefore
    /\ req.token.present
    /\ req.remote_user.token # undefined
    /\ req.remote_user = mw.before

(***************************************************************************)
(* Reading a decoded token.                                                *)
(***************************************************************************)
\* the expiry window the caller of decode_token asked for
Window(expire_time) == IF expire_time = NoExpire THEN DefaultExpire ELSE expire_time

\* the token was decoded as issued, and within the window asked for
DecodedInWindow ==
    /\ tk.decoded /\ tk.tampered = "no"
    /\ Abs(tk.issued - tk.now) <= Window(tk.expire_time)

Expired == Thrown(HttpError(401, "token expired"))

(***************************************************************************)
(* C14 (as claimed): for every principal, also one whose real_groups is    *)
(* empty, decode(issue(principal)) within the expiry window returns a      *)
(* payload whose u is the principal's name and whose g is its real_groups. *)
(***************************************************************************)
C14_RoundTripKeepsRealGroups ==
    DecodedInWindow =>
        /\ ~tk.result.thrown
        /\ tk.result.data.u = tk.principal.name
        /\ tk.result.data.g = tk.principal.real_groups

(***************************************************************************)
(* C14 (amended): ... returns a payload whose u is the principal's name    *)
(* and whose g is its real_groups when they are not empty, and is absent   *)
(* when real_groups is empty or absent.                                    *)
(***************************************************************************)
C14_RoundTripOmitsEmptyGroups ==
    DecodedInWindow =>
        /\ ~tk.result.thrown
        /\ tk.result.data.u = tk.principal.name
        /\ tk.result.data.t = tk.issued
        /\ tk.result.data.g =
               IF tk.principal.real_groups.kind = "array"
                  /\ tk.principal.real_groups.items # <<>>
               THEN tk.principal.real_groups
               ELSE JsUndefined

\* the anonymous principal's token, decoded: real_groups is [] and g is absent
C14_Witness ==
    /\ DecodedInWindow
    /\ tk.principal = buildAnonymousUser
    /\ tk.result = Returned([u |-> undefined, g |-> JsUndefined, t |-> tk.issued])

(***************************************************************************)
(* C15: a correctly signed token issued at t and decoded at now with the   *)
(* window expire_seconds (86400 when none is given) fails with 401 'token  *)
(* expired' iff |t - now| > expire_seconds, and succeeds otherwise; the    *)
(* value given is the one used, for every non-negative integer.            *)
(***************************************************************************)
C15_ExpiredIffOutsideWindow ==
    tk.decoded /\ tk.tampered = "no" =>
        IF Abs(tk.issued - tk.now) > Window(tk.expire_time)
        THEN tk.result = Expired
        ELSE ~tk.result.thrown

(***************************************************************************)
(* C16: decode_token returns a payload only for a token whose last 32      *)
(* bytes are the MAC of the bytes before them under the facade's secret.   *)
(* The length is checked first (at most 32 bytes: 401 'invalid token'),    *)
(* then the signature (401 'bad signature'), then the expiry: a token      *)
(* with one payload or MAC byte changed fails with 'bad signature'         *)
(* whatever its timestamp, and 'token expired' is only said of a token     *)
(* whose signature matched.                                                *)
(***************************************************************************)
Signed(bytes) ==
    /\ Len(bytes) > MacLen
    /\ SubSeq(bytes, Len(bytes) - MacLen + 1, Len(bytes))
           = Hmac(secret, SubSeq(bytes, 1, Len(bytes) - MacLen))

C16_SignatureBeforeExpiry ==
    tk.decoded =>
        /\ ~tk.result.thrown => Signed(tk.bytes)
        /\ tk.result = Expired => Signed(tk.bytes)
        /\ Len(tk.bytes) <= MacLen =>
               tk.result = Thrown(HttpError(401, "invalid token"))
        /\ Len(tk.bytes) > MacLen /\ ~Signed(tk.bytes) =>
               tk.result = Thrown(HttpError(401, "bad signature"))
        /\ tk.tampered \in {"payload", "mac"} =>
               tk.result = Thrown(HttpError(401, "bad signature"))

\* a token whose payload was changed, decoded long after the window closed
C16_Witness ==
    /\ tk.decoded
    /\ tk.tampered = "payload"
    /\ Abs(tk.issued - tk.now) > DefaultExpire
    /\ tk.result = Thrown(HttpError(401, "bad signature"))

(***************************************************************************)
(* C17: whenever a middleware has called the next stage, and for every     *)
(* principal authenticate or add_user returned, the principal is either    *)
(* anonymous (no name, real_groups an empty sequence, groups with $all and *)
(* $anonymous and without $authenticated) or authenticated (a name,        *)
(* real_groups a sequence of the granted groups without the synthetic      *)
(* markers, groups those followed by $all, $authenticated, @all,           *)
(* @authenticated, all), also when the Bearer middleware built it from a   *)
(* token issued for a principal with empty real_groups.                    *)
(***************************************************************************)
AnonymousShape(u) ==
    /\ u.name = undefined
    /\ u.real_groups = JsArray(<<>>)
    /\ {"$all", "$anonymous"} \subseteq Range(u.groups)
    /\ "$authenticated" \notin Range(u.groups)

AuthenticatedShape(u) ==
    /\ u.name # undefined
    /\ u.real_groups.kind = "array"
    /\ Range(u.real_groups.items) \cap Range(AuthenticatedGroups) = {}
    /\ u.groups =
           u.real_groups.items
           \o <<"$all", "$authenticated", "@all", "@authenticated", "all">>

C17_PrincipalShapes ==
    /\ mw.name # "idle" /\ ~mw.running =>
           AnonymousShape(req.remote_user) \/ AuthenticatedShape(req.remote_user)
    /\ \A s \in Slots :
           /\ Finished(res[s]) /\ res[s].op \in {"authenticate", "add_user"}
           /\ TheResult(res[s]).err = Null
           => AuthenticatedShape(TheResult(res[s]).user)

(***************************************************************************)
(* Reading the credential blob of the request a middleware worked on.      *)
(***************************************************************************)
\* the decipher throws on the bytes behind text: they are not the
\* encryption of anything under the facade's secret
Undecryptable(text) ==
    \A plain \in CredentialTexts \cup {<<>>} : aes_encrypt(plain) # Base64Decode(text)

\* the middleware that ran, run again on the request as it came in but
\* for the credential: without the Authorization header, without the cookie
WithoutCredential ==
    LET bare == IF mw.name = "cookie" THEN [req EXCEPT !.token = NoCookie]
                ELSE [req EXCEPT !.authorization = Absent]
        w    == [req  |-> [bare EXCEPT !.remote_user = mw.before, !.paused = TRUE],
                 mw   |-> [mw EXCEPT !.running = TRUE, !.trace = <<"pause">>,
                                     !.next_err = Null],
                 auth |-> NoAuth]
    IN  IF mw.name = "cookie" THEN cookie_middleware(w) ELSE basic_middleware(w)

\* the request carried a blob the middleware that ran could not decrypt
CarriedUndecryptable ==
    \/ /\ Passed("basic")
       /\ req.authorization.present
       /\ Len(HeaderParts) = 2 /\ HeaderParts[1] = <<"Bearer">>
       /\ Undecryptable(Join(HeaderParts[2]))
    \/ /\ Passed("cookie")
       /\ req.token.present
       /\ Undecryptable(req.token.value)

(***************************************************************************)
(* C18: a credential blob that cannot be decrypted (Bearer scheme in the   *)
(* Basic middleware, the 'token' cookie in the Cookie middleware) leaves   *)
(* the middleware in the state the same request without any credential     *)
(* leaves it in: anonymous principal without an error on it, no provider   *)
(* invoked, next stage called without an error.                            *)
(***************************************************************************)
C18_UndecryptableAsAbsent ==
    CarriedUndecryptable =>
        /\ req.remote_user = WithoutCredential.req.remote_user
        /\ mw.trace = WithoutCredential.mw.trace
        /\ mw.next_err = WithoutCredential.mw.next_err
        /\ ~WithoutCredential.auth.call
        /\ ~NamedBefore => req.remote_user = buildAnonymousUser
        /\ mw.trace = <<"pause", "resume", "_next">>
        /\ mw.next_err = Null
        /\ NoResolution

\* the Basic middleware went over a Bearer blob encrypted under another
\* secret on a request without a principal
C18_Witness ==
    /\ Passed("basic")
    /\ ~NamedBefore
    /\ req.authorization =
           Header(<<"Bearer", " ",
                    B64(AesEncryptWith(OtherSecret, <<"alice", ":", "pw">>))>>)
    /\ req.remote_user = buildAnonymousUser

(***************************************************************************)
(* Several resolutions in flight at once.                                  *)
(***************************************************************************)
\* the resolution r started again from its arguments, alone, and fed the
\* answers the external providers gave r, in the order they gave them
RECURSIVE Feed(_, _)
Feed(r, answers) ==
    IF answers = <<>> \/ r.pending = 0 THEN r
    ELSE Feed(callback(r, r.pending, Head(answers).answer), Tail(answers))

Alone(r) ==
    LET fresh == NewRes(r.op, r.cont, r.user, r.password, r.pkg, r.principal)
        given == SelectSeq(r.log, LAMBDA e : e.ev = "answer"
                                             /\ plugins[e.id].kind = "external")
    IN  Feed(IF r.op = "authenticate" THEN authenticate(fresh) ELSE next(fresh), given)

\* every walk of r began at the first provider of the list that has its method
FromIndex0(r) ==
    \A W \in Walks :
        WalkLog(r, W) # <<>> =>
            /\ MethodFor(W, plugins[WalkLog(r, W)[1].id]) # ""
            /\ \A j \in 1..(WalkLog(r, W)[1].id - 1) : MethodFor(W, plugins[j]) = ""

=============================================================================
